---- MODULE Spec2Model ----
(***************************************************************************)
(* Debt Review API (Debtreviewserver.js): the POST /api/clients/add and    *)
(* GET /api/clients/export handlers, the single MySQL connection they      *)
(* share, the clients table and the clients.csv file written by the        *)
(* module-level csvWriter.                                                  *)
(*                                                                         *)
(* Text is modelled by TLA+ strings; JSON values of a request body are     *)
(* tagged records so that a missing key, null, a string and a number stay  *)
(* distinguishable, as they are for the validators.                        *)
(***************************************************************************)
EXTENDS Integers, Sequences, FiniteSets, TLC

\* ------------------------------------------------------------------ bounds

\* The number of requests, of either kind, the server receives in a run.
MaxRequests == 3

\* ------------------------------------------------------------- JSON values

Undefined == [t |-> "undefined", v |-> ""]

Null == [t |-> "null", v |-> ""]

Str(s) == [t |-> "string", v |-> s]

\* A JSON number of a request body, kept as its decimal text.
Num(d) == [t |-> "number", v |-> d]

\* An integer the server produces (results.insertId).
Integer(n) == [t |-> "integer", n |-> n]

\* A JSON array and the one shape of JSON object the responses carry.
Array(items) == [t |-> "array", items |-> items]

ErrorObject(what) == [t |-> "object", error |-> what]

\* The ten columns, in the order of the destructuring, the INSERT and the CSV header.
Columns ==
  << "title", "name", "surname", "phone_number", "id_number", "email",
     "notes", "optindate", "preferred_time", "offerID" >>

RequiredColumns == { "title", "name", "surname", "phone_number", "id_number", "email" }

OptionalColumns == { "notes", "optindate", "preferred_time", "offerID" }

\* ------------------------------------------------------------ string helpers

Digits == { "0", "1", "2", "3", "4", "5", "6", "7", "8", "9" }

Letters ==
  { "a", "b", "c", "d", "e", "f", "g", "h", "i", "j", "k", "l", "m",
    "n", "o", "p", "q", "r", "s", "t", "u", "v", "w", "x", "y", "z" }

Ch(s, i) == SubSeq(s, i, i)

AllIn(s, from, to, set) == \A i \in from..to : Ch(s, i) \in set

Contains(s, c) == \E i \in 1..Len(s) : Ch(s, i) = c

\* express-validator's toString: what every string validator is applied to.
\* A number is written as its decimal digits (the model keeps them as text).
toString(x) == IF x.t \in { "string", "number" } THEN x.v ELSE ""

\* ---------------------------------------------------------------- validators

\* notEmpty(): the stringified value has a character.
notEmpty(x) == Len(toString(x)) > 0

\* isMobilePhone() with the default locale 'any': the alternation of the
\* locale patterns. The inputs of this model are South African numbers and
\* strings with no digit run, which the en-ZA pattern /^(\+?27|0)\d{9}$/ decides.
isMobilePhone(x) ==
  LET s == toString(x)
      n == Len(s)
  IN  \/ n = 10 /\ Ch(s, 1) = "0" /\ AllIn(s, 2, 10, Digits)
      \/ n = 11 /\ SubSeq(s, 1, 2) = "27" /\ AllIn(s, 3, 11, Digits)
      \/ n = 12 /\ SubSeq(s, 1, 3) = "+27" /\ AllIn(s, 4, 12, Digits)

\* isLength({ min: 13, max: 13 })
isLength13(x) == Len(toString(x)) = 13

\* isEmail(): local@domain.tld over lower-case letters and digits, the tld of
\* two letters or more (the fragment of the address syntax the inputs use).
isEmail(x) ==
  LET s == toString(x)
      n == Len(s)
  IN  \E a \in 2..n : \E d \in (a + 2)..n :
        /\ Ch(s, a) = "@"
        /\ Ch(s, d) = "."
        /\ AllIn(s, 1, a - 1, Letters \cup Digits \cup { "." })
        /\ Ch(s, 1) # "." /\ Ch(s, a - 1) # "."
        /\ AllIn(s, a + 1, d - 1, Letters \cup Digits)
        /\ n - d >= 2
        /\ AllIn(s, d + 1, n, Letters)

DigitVal(c) == CHOOSE d \in 0..9 : Ch("0123456789", d + 1) = c

\* Two decimal digits at i, i+1 whose value lies in lo..hi.
TwoDigits(s, i, lo, hi) ==
  /\ Ch(s, i) \in Digits /\ Ch(s, i + 1) \in Digits
  /\ 10 * DigitVal(Ch(s, i)) + DigitVal(Ch(s, i + 1)) \in lo..hi

\* isISO8601(): the calendar-date form YYYY-MM-DD (the form the inputs use).
isISO8601(x) ==
  LET s == toString(x)
  IN  /\ Len(s) = 10
      /\ AllIn(s, 1, 4, Digits)
      /\ Ch(s, 5) = "-" /\ Ch(s, 8) = "-"
      /\ TwoDigits(s, 6, 1, 12)
      /\ TwoDigits(s, 9, 1, 31)

\* matches(/^([01]\d|2[0-3]):([0-5]\d):([0-5]\d)$/)
matchesTime(x) ==
  LET s == toString(x)
  IN  /\ Len(s) = 8
      /\ Ch(s, 3) = ":" /\ Ch(s, 6) = ":"
      /\ TwoDigits(s, 1, 0, 23)
      /\ TwoDigits(s, 4, 0, 59)
      /\ TwoDigits(s, 7, 0, 59)

\* isString(): typeof value === 'string', no stringification.
isString(x) == x.t = "string"

\* optional(): the chain is skipped when the value is undefined, and only then.
optional(x) == x.t = "undefined"

\* One validation chain of the route: does the field of body b pass it?
Passes(b, f) ==
  CASE f = "title" -> notEmpty(b[f])
    [] f = "name" -> notEmpty(b[f])
    [] f = "surname" -> notEmpty(b[f])
    [] f = "phone_number" -> isMobilePhone(b[f])
    [] f = "id_number" -> isLength13(b[f])
    [] f = "email" -> isEmail(b[f])
    [] f = "notes" -> TRUE
    [] f = "optindate" -> optional(b[f]) \/ isISO8601(b[f])
    [] f = "preferred_time" -> optional(b[f]) \/ matchesTime(b[f])
    [] f = "offerID" -> optional(b[f]) \/ isString(b[f])

Message(f) ==
  CASE f = "title" -> "Title is required"
    [] f = "name" -> "Name is required"
    [] f = "surname" -> "Surname is required"
    [] f = "phone_number" -> "Invalid phone number"
    [] f = "id_number" -> "ID number must be 13 digits"
    [] f = "email" -> "Invalid email"
    [] f = "optindate" -> "Invalid opt-in date"
    [] f = "preferred_time" -> "Invalid preferred time format"
    [] f = "offerID" -> "OfferID must be a string"
    [] OTHER -> ""

RECURSIVE ErrorsFrom(_, _)
ErrorsFrom(b, i) ==
  IF i > Len(Columns) THEN << >>
  ELSE LET f == Columns[i]
       IN  (IF Passes(b, f) THEN << >>
            ELSE << [path |-> f, msg |-> Message(f), value |-> b[f]] >>)
           \o ErrorsFrom(b, i + 1)

\* A variant that reports the first failing chain only.
validationResult_FirstOnly(b) == SubSeq(ErrorsFrom(b, 1), 1, 1)

\* validationResult(req).array(): one entry per failing chain, in chain order.
validationResult(b) == ErrorsFrom(b, 1)

\* ------------------------------------------------------------------ inputs

\* A submission with every optional field populated; the notes hold the
\* characters the CSV stringifier has to quote.
FullBody ==
  [ title |-> Str("Mr"), name |-> Str("Jo"), surname |-> Str("Doe"),
    phone_number |-> Str("+27123456789"), id_number |-> Str("1234567890123"),
    email |-> Str("jo@x.za"), notes |-> Str("a,\"b\"\nc"),
    optindate |-> Str("2024-07-31"), preferred_time |-> Str("18:00:00"),
    offerID |-> Str("O1") ]

\* The required fields only, with another phone number.
MinimalBody ==
  [ title |-> Str("Ms"), name |-> Str("Al"), surname |-> Str("Roe"),
    phone_number |-> Str("0823456789"), id_number |-> Str("9876543210987"),
    email |-> Str("al@y.org"), notes |-> Undefined,
    optindate |-> Undefined, preferred_time |-> Undefined,
    offerID |-> Undefined ]

\* Another person submitting the phone number of FullBody.
SamePhoneBody ==
  [ MinimalBody EXCEPT !.phone_number = Str("+27123456789"), !.notes = Str("n") ]

ValidBodies == { FullBody, MinimalBody, SamePhoneBody }

\* A value that fails the chain of the field.
Bad(f) ==
  CASE f = "title" -> Str("")
    [] f = "name" -> Undefined
    [] f = "surname" -> Null
    [] f = "phone_number" -> Str("abc")
    [] f = "id_number" -> Str("12345")
    [] f = "email" -> Str("jo.x.za")
    [] f = "optindate" -> Null
    [] f = "preferred_time" -> Str("24:00:00")
    [] f = "offerID" -> Num("7")
    [] OTHER -> Undefined

ValidatedColumns == RequiredColumns \cup (OptionalColumns \ { "notes" })

Spoil(b, fs) == [ f \in DOMAIN b |-> IF f \in fs THEN Bad(f) ELSE b[f] ]

\* FullBody with every validated field spoiled, with two and with three of
\* them, and the empty body (six required fields missing).
InvalidBodies ==
  { Spoil(FullBody, ValidatedColumns),
    Spoil(FullBody, { "id_number", "email" }),
    Spoil(FullBody, { "title", "preferred_time", "offerID" }),
    [ f \in DOMAIN FullBody |-> Undefined ] }

Bodies == ValidBodies \cup InvalidBodies

\* ------------------------------------------------------------------- CSV

HeaderTitles ==
  << "Title", "Name", "Surname", "Phone Number", "ID Number", "Email",
     "Notes", "Opt-in Date", "Preferred Time", "Offer ID" >>

RECURSIVE DoubleQuotes(_)
\* str.replace(/"/g, '""')
DoubleQuotes(s) ==
  IF s = "" THEN ""
  ELSE (IF Head(s) = "\"" THEN "\"\"" ELSE Head(s)) \o DoubleQuotes(Tail(s))

\* A variant that quotes without doubling the quotes inside.
stringifyField_NoEscape(x) ==
  LET s == toString(x)
  IN  IF Contains(s, ",") \/ Contains(s, "\n") \/ Contains(s, "\"")
      THEN "\"" \o s \o "\""
      ELSE s

\* The field stringifier of csv-writer: empty for null/undefined/'', quoted
\* when the text holds the delimiter, a line break or a quote.
stringifyField(x) ==
  LET s == toString(x)
  IN  IF Contains(s, ",") \/ Contains(s, "\n") \/ Contains(s, "\"")
      THEN "\"" \o DoubleQuotes(s) \o "\""
      ELSE s

RECURSIVE JoinFrom(_, _)
JoinFrom(fields, i) ==
  IF i > Len(fields) THEN ""
  ELSE fields[i] \o (IF i < Len(fields) THEN "," ELSE "") \o JoinFrom(fields, i + 1)

\* One record: the fields joined by the delimiter, then the record delimiter.
stringifyLine(fields) == JoinFrom(fields, 1) \o "\n"

getHeaderString == stringifyLine([ i \in 1..Len(HeaderTitles) |-> stringifyField(Str(HeaderTitles[i])) ])

stringifyRecord(row) ==
  stringifyLine([ i \in 1..Len(Columns) |-> stringifyField(row.cols[Columns[i]]) ])

RECURSIVE stringifyRecords(_)
stringifyRecords(rows) ==
  IF rows = << >> THEN ""
  ELSE stringifyRecord(Head(rows)) \o stringifyRecords(Tail(rows))

\* ------------------------------------------------------------------- state

VARIABLES
  table,     \* the rows of the clients table, in the order SELECT * returns them
  nextId,    \* the AUTO_INCREMENT counter behind results.insertId
  queue,     \* the commands queued on the one connection, oldest first
  adds,      \* the POST /api/clients/add requests
  exports,   \* the GET /api/clients/export requests
  file,      \* the content of clients.csv
  append     \* csvWriter's append flag (and that of its file writer)

vars == << table, nextId, queue, adds, exports, file, append >>

AddIds == 1..MaxRequests

ExportIds == 1..MaxRequests

\* The requests received so far.
Received ==
  Cardinality({ r \in AddIds : adds[r].pc # "idle" })
    + Cardinality({ e \in ExportIds : exports[e].pc # "idle" })

NoResponse == [ none |-> TRUE ]

Now == "now"

IdleAdd ==
  [ pc |-> "idle", body |-> [ f \in DOMAIN FullBody |-> Undefined ], status |-> 0,
    resp |-> NoResponse, dbError |-> "none", inserted |-> FALSE ]

IdleExport ==
  [ pc |-> "idle", rows |-> << >>, writeString |-> "", flag |-> "", status |-> 0,
    resp |-> NoResponse, body |-> "", alone |-> TRUE, after |-> {},
    clobbered |-> FALSE ]

Init ==
  /\ table = << >>
  /\ nextId = 1
  /\ queue = << >>
  /\ adds = [ r \in AddIds |-> IdleAdd ]
  /\ exports = [ e \in ExportIds |-> IdleExport ]
  /\ file \in { "", "stale\n" }
  /\ append = FALSE

\* --------------------------------------------------------------- responses

Envelope(code, response, info, leadId) ==
  [ code |-> code, response |-> response, info |-> info, leadId |-> leadId,
    processTime |-> 0, timestamp |-> Now ]

ValidationErrorResponse(errors) == Envelope(-5, "Validation error", Array(errors), Null)

InternalErrorResponse(what) == Envelope(-100, "Internal error", ErrorObject(what), Null)

DuplicateResponse ==
  [ code |-> -2, response |-> "Invalid Lead", description |-> "Duplicate",
    leadId |-> Null, processTime |-> 0, timestamp |-> Now ]

OkResponse(insertId) == Envelope(1, "OK", Array(<< >>), Integer(insertId))

\* Variants of the status mapping: 200 for a created row; 500 for a failure.
InsertStatus_200(response) == IF response.code = 1 THEN 200 ELSE 400

InsertStatus_500(response) == IF response.code = 1 THEN 201 ELSE 500

\* res.status(response.code === 1 ? 201 : 400)
InsertStatus(response) == IF response.code = 1 THEN 201 ELSE 400

\* --------------------------------------------------------------- datastore

\* A variant that looks the phone number up in the wrong column.
SelectByPhone_WrongColumn(t, phone) ==
  SelectSeq(t, LAMBDA row : row.cols["id_number"] = phone)

\* SELECT * FROM clients WHERE phone_number = ?
SelectByPhone(t, phone) ==
  SelectSeq(t, LAMBDA row : row.cols["phone_number"] = phone)

\* A bound parameter: undefined is sent as NULL.
Bind(x) == IF x.t = "undefined" THEN Null ELSE x

\* A variant that behaves as INSERT IGNORE under a unique key on phone_number.
InsertRow_Unique(t, id, b) ==
  IF \E i \in 1..Len(t) : t[i].cols["phone_number"] = b["phone_number"]
  THEN t
  ELSE Append(t, [ leadId |-> id, cols |-> [ f \in DOMAIN b |-> IF b[f].t = "undefined" THEN Null ELSE b[f] ] ])

\* INSERT INTO clients (...) VALUES (?, ..., ?): one new row, the next id.
InsertRow(t, id, b) ==
  Append(t, [ leadId |-> id, cols |-> [ f \in DOMAIN b |-> Bind(b[f]) ] ])

\* ----------------------------------------------------- POST /api/clients/add

\* The route handler up to the first query: the validation chains run, a
\* failing one answers 400 at once, otherwise the duplicate lookup is queued.
AddRequest(r, b) ==
  /\ Received < MaxRequests
  /\ adds[r].pc = "idle"
  /\ \A q \in AddIds : q < r => adds[q].pc # "idle"
  /\ LET errors == validationResult(b)
     IN  IF errors # << >>
         THEN /\ adds' = [ adds EXCEPT ![r] =
                     [ @ EXCEPT !.pc = "done", !.body = b, !.status = 400,
                                !.resp = ValidationErrorResponse(errors) ] ]
              /\ queue' = queue
         ELSE /\ adds' = [ adds EXCEPT ![r] = [ @ EXCEPT !.pc = "lookup", !.body = b ] ]
              /\ queue' = Append(queue, [ kind |-> "check", req |-> r ])
  /\ UNCHANGED << table, nextId, exports, file, append >>

\* The callback of the duplicate lookup, the query having failed.
CheckFailed(r) ==
  /\ queue # << >> /\ Head(queue) = [ kind |-> "check", req |-> r ]
  /\ adds' = [ adds EXCEPT ![r] =
         [ @ EXCEPT !.pc = "done", !.status = 500, !.dbError = "check",
                    !.resp = InternalErrorResponse("Database error") ] ]
  /\ queue' = Tail(queue)
  /\ UNCHANGED << table, nextId, exports, file, append >>

\* The callback of the duplicate lookup with its results: a row found answers
\* 400 "Duplicate", none queues the INSERT.
CheckDone(r) ==
  /\ queue # << >> /\ Head(queue) = [ kind |-> "check", req |-> r ]
  /\ LET results == SelectByPhone(table, adds[r].body["phone_number"])
     IN  IF Len(results) > 0
         THEN /\ adds' = [ adds EXCEPT ![r] =
                     [ @ EXCEPT !.pc = "done", !.status = 400, !.resp = DuplicateResponse ] ]
              /\ queue' = Tail(queue)
         ELSE /\ adds' = [ adds EXCEPT ![r] = [ @ EXCEPT !.pc = "insert" ] ]
              /\ queue' = Append(Tail(queue), [ kind |-> "insert", req |-> r ])
  /\ UNCHANGED << table, nextId, exports, file, append >>

\* The callback of the INSERT, the query having failed: no row is written.
InsertFailed(r) ==
  /\ queue # << >> /\ Head(queue) = [ kind |-> "insert", req |-> r ]
  /\ LET response == InternalErrorResponse("Database error")
     IN  adds' = [ adds EXCEPT ![r] =
           [ @ EXCEPT !.pc = "done", !.status = InsertStatus(response),
                      !.dbError = "insert", !.resp = response ] ]
  /\ queue' = Tail(queue)
  /\ UNCHANGED << table, nextId, exports, file, append >>

\* The INSERT executed and its callback: the row is in the table and its id
\* is the leadId of the 201 response.
InsertDone(r) ==
  /\ queue # << >> /\ Head(queue) = [ kind |-> "insert", req |-> r ]
  /\ table' = InsertRow(table, nextId, adds[r].body)
  /\ nextId' = nextId + 1
  /\ LET response == OkResponse(nextId)
     IN  adds' = [ adds EXCEPT ![r] =
           [ @ EXCEPT !.pc = "done", !.status = InsertStatus(response),
                      !.inserted = TRUE, !.resp = response ] ]
  /\ queue' = Tail(queue)
  /\ UNCHANGED << exports, file, append >>

\* --------------------------------------------------- GET /api/clients/export

InFlight(e) == exports[e].pc \notin { "idle", "done" }

\* The route handler: SELECT * FROM clients is queued. (alone and after
\* record what the request overlapped with and which adds had answered 201.)
ExportRequest(e) ==
  /\ Received < MaxRequests
  /\ exports[e].pc = "idle"
  /\ \A q \in ExportIds : q < e => exports[q].pc # "idle"
  /\ exports' = [ q \in ExportIds |->
       IF q = e
       THEN [ exports[q] EXCEPT !.pc = "select",
                !.alone = \A o \in ExportIds : ~InFlight(o),
                !.after = { r \in AddIds : adds[r].pc = "done" /\ adds[r].status = 201 } ]
       ELSE IF InFlight(q) THEN [ exports[q] EXCEPT !.alone = FALSE ]
       ELSE exports[q] ]
  /\ queue' = Append(queue, [ kind |-> "select", req |-> e ])
  /\ UNCHANGED << table, nextId, adds, file, append >>

\* The callback of SELECT *, the query having failed.
SelectFailed(e) ==
  /\ queue # << >> /\ Head(queue) = [ kind |-> "select", req |-> e ]
  /\ exports' = [ exports EXCEPT ![e] =
       [ @ EXCEPT !.pc = "done", !.status = 500,
                  !.resp = InternalErrorResponse("Database error") ] ]
  /\ queue' = Tail(queue)
  /\ UNCHANGED << table, nextId, adds, file, append >>

\* csvWriter.writeRecords(rows) up to its file write: the header goes in front
\* unless the writer is appending, and the open flag is chosen the same way.
writeString(rows, appending) ==
  (IF appending THEN "" ELSE getHeaderString) \o stringifyRecords(rows)

getWriteOption(appending) == IF appending THEN "a" ELSE "w"

\* The callback of SELECT * with the rows: writeRecords starts its write.
SelectDone(e) ==
  /\ queue # << >> /\ Head(queue) = [ kind |-> "select", req |-> e ]
  /\ exports' = [ exports EXCEPT ![e] =
       [ @ EXCEPT !.pc = "writing", !.rows = table,
                  !.writeString = writeString(table, append),
                  !.flag = getWriteOption(append) ] ]
  /\ queue' = Tail(queue)
  /\ UNCHANGED << table, nextId, adds, file, append >>

\* A variant that extends the file whatever the flag.
writeFile_AlwaysAppend(content, string, flag) == content \o string

\* fs.writeFile with the flag: 'w' replaces the content, 'a' extends it.
writeFile(content, string, flag) == IF flag = "a" THEN content \o string ELSE string

\* The write lands: from now on csvWriter appends. The promise resolves and
\* res.download is called. (clobbered records, for a request that has written
\* and not yet sent the file, that another write landed in between.)
WriteDone(e) ==
  /\ exports[e].pc = "writing"
  /\ file' = writeFile(file, exports[e].writeString, exports[e].flag)
  /\ append' = TRUE
  /\ exports' = [ q \in ExportIds |->
       IF q = e THEN [ exports[q] EXCEPT !.pc = "download" ]
       ELSE IF exports[q].pc = "download" THEN [ exports[q] EXCEPT !.clobbered = TRUE ]
       ELSE exports[q] ]
  /\ UNCHANGED << table, nextId, queue, adds >>

\* The write is rejected: the catch handler answers 500.
WriteFailed(e) ==
  /\ exports[e].pc = "writing"
  /\ exports' = [ exports EXCEPT ![e] =
       [ @ EXCEPT !.pc = "done", !.status = 500,
                  !.resp = InternalErrorResponse("CSV writing error") ] ]
  /\ UNCHANGED << table, nextId, queue, adds, file, append >>

\* res.download reads clients.csv and sends what it holds at that moment.
Download(e) ==
  /\ exports[e].pc = "download"
  /\ exports' = [ exports EXCEPT ![e] =
       [ @ EXCEPT !.pc = "done", !.status = 200, !.body = file ] ]
  /\ UNCHANGED << table, nextId, queue, adds, file, append >>

\* ------------------------------------------------------------ specification

Next ==
  \/ \E r \in AddIds : \E b \in Bodies : AddRequest(r, b)
  \/ \E r \in AddIds : CheckFailed(r)
  \/ \E r \in AddIds : CheckDone(r)
  \/ \E r \in AddIds : InsertFailed(r)
  \/ \E r \in AddIds : InsertDone(r)
  \/ \E e \in ExportIds : ExportRequest(e)
  \/ \E e \in ExportIds : SelectFailed(e)
  \/ \E e \in ExportIds : SelectDone(e)
  \/ \E e \in ExportIds : WriteDone(e)
  \/ \E e \in ExportIds : WriteFailed(e)
  \/ \E e \in ExportIds : Download(e)

Spec == Init /\ [][Next]_vars

\* ------------------------------------------------------- reading the results

\* An RFC 4180 reader: the records of a CSV text, each the sequence of its
\* fields. It reads field by field, so that its depth is that of a record.

RECURSIVE ClosingQuote(_, _)
\* The position of the quote that closes a quoted field, scanning from q.
ClosingQuote(s, q) ==
  IF q > Len(s) THEN q
  ELSE IF Ch(s, q) = "\""
       THEN IF q < Len(s) /\ Ch(s, q + 1) = "\"" THEN ClosingQuote(s, q + 2) ELSE q
       ELSE ClosingQuote(s, q + 1)

RECURSIVE DelimiterFrom(_, _)
\* The position of the delimiter that ends an unquoted field, scanning from q.
DelimiterFrom(s, q) ==
  IF q > Len(s) \/ Ch(s, q) \in { ",", "\n" } THEN q ELSE DelimiterFrom(s, q + 1)

RECURSIVE Undouble(_)
Undouble(s) ==
  IF s = "" THEN ""
  ELSE IF Len(s) >= 2 /\ SubSeq(s, 1, 2) = "\"\"" THEN "\"" \o Undouble(SubSeq(s, 3, Len(s)))
  ELSE Head(s) \o Undouble(Tail(s))

RECURSIVE ParseRecord(_, _, _)
\* The fields of the record that starts at p, and where the next one starts.
ParseRecord(s, p, rec) ==
  LET quoted == p <= Len(s) /\ Ch(s, p) = "\""
      close == ClosingQuote(s, p + 1)
      d == IF quoted THEN close + 1 ELSE DelimiterFrom(s, p)
      fld == IF quoted THEN Undouble(SubSeq(s, p + 1, close - 1)) ELSE SubSeq(s, p, d - 1)
  IN  IF d <= Len(s) /\ Ch(s, d) = ","
      THEN ParseRecord(s, d + 1, Append(rec, fld))
      ELSE [ fields |-> Append(rec, fld), next |-> d + 1 ]

RECURSIVE ParseRecords(_, _)
ParseRecords(s, p) ==
  IF p > Len(s) THEN << >>
  ELSE LET r == ParseRecord(s, p, << >>)
       IN  << r.fields >> \o ParseRecords(s, r.next)

ParseCsv(s) == ParseRecords(s, 1)

\* The ten values a submission carries, as text.
Submitted(b) == [ i \in 1..Len(Columns) |-> b[Columns[i]].v ]

\* The ten columns of a table row, as text (NULL reads as the empty field).
RowText(row) == [ i \in 1..Len(Columns) |-> row.cols[Columns[i]].v ]

\* The rule of field f, read off the inputs: a spoiled value breaks it, and so
\* does a required field that is missing.
RuleViolated(b, f) ==
  \/ f \in ValidatedColumns /\ b[f] = Bad(f)
  \/ f \in RequiredColumns /\ b[f] = Undefined

ViolatedFields(b) == { f \in DOMAIN b : RuleViolated(b, f) }

PhoneInTable(t, b) == \E i \in 1..Len(t) : t[i].cols["phone_number"] = b["phone_number"]

RowsWithPhone(t, b) == { i \in 1..Len(t) : t[i].cols["phone_number"] = b["phone_number"] }

EnvelopeKeys == { "code", "response", "info", "leadId", "processTime", "timestamp" }

\* The step in which request r receives the callback of its queued command.
CheckCallback(r) ==
  /\ queue # << >> /\ Head(queue) = [ kind |-> "check", req |-> r ]
  /\ adds'[r] # adds[r]

InsertCallback(r) ==
  /\ queue # << >> /\ Head(queue) = [ kind |-> "insert", req |-> r ]
  /\ adds'[r] # adds[r]

\* ------------------------------------------------------------------ claims

\* C1: a submission that passes every rule, whose phone number is in no row at
\* the duplicate check and that meets no datastore error goes on to the INSERT,
\* and the INSERT's callback answers 201, code 1, "OK" with the leadId of the
\* row just written; the table is the old table plus that one row, which holds
\* the submitted fields.
C1_AddSuccess ==
  [][\A r \in AddIds :
       /\ (adds[r].pc = "idle" /\ adds'[r].pc # "idle" /\ ViolatedFields(adds'[r].body) = {})
            => adds'[r].pc = "lookup"
       /\ (CheckCallback(r) /\ adds'[r].dbError = "none" /\ ~PhoneInTable(table, adds[r].body))
            => adds'[r].pc = "insert"
       /\ (InsertCallback(r) /\ adds'[r].dbError = "none")
            => /\ adds'[r].pc = "done"
               /\ adds'[r].status = 201
               /\ DOMAIN adds'[r].resp = EnvelopeKeys
               /\ adds'[r].resp.code = 1
               /\ adds'[r].resp.response = "OK"
               /\ adds'[r].resp.leadId # Null
               /\ Len(table') = Len(table) + 1
               /\ SubSeq(table', 1, Len(table)) = table
               /\ adds'[r].resp.leadId = Integer(table'[Len(table')].leadId)
               /\ \A i \in 1..Len(table) : table[i].leadId # table'[Len(table')].leadId
               /\ \A f \in DOMAIN adds[r].body :
                    table'[Len(table')].cols[f] =
                      (IF adds[r].body[f] = Undefined THEN Null ELSE adds[r].body[f])
  ]_vars

C1_Witness ==
  \E r \in AddIds :
    /\ adds[r].pc = "done" /\ adds[r].status = 201
    /\ ViolatedFields(adds[r].body) = {}
    /\ \E i \in 1..Len(table) :
         /\ adds[r].resp.leadId = Integer(table[i].leadId)
         /\ RowText(table[i]) = Submitted(adds[r].body)

\* C2: when the duplicate lookup of a valid submission finds its phone number
\* in a row of the table, the request answers 400, code -2, "Invalid Lead",
\* description "Duplicate", queues no INSERT and leaves the table as it was.
C2_Duplicate ==
  [][\A r \in AddIds :
       (CheckCallback(r) /\ adds'[r].dbError = "none" /\ PhoneInTable(table, adds[r].body))
         => /\ adds'[r].pc = "done"
            /\ adds'[r].status = 400
            /\ adds'[r].resp.code = -2
            /\ adds'[r].resp.response = "Invalid Lead"
            /\ "description" \in DOMAIN adds'[r].resp
            /\ adds'[r].resp.description = "Duplicate"
            /\ ~adds'[r].inserted
            /\ \A k \in 1..Len(queue') : queue'[k] # [ kind |-> "insert", req |-> r ]
            /\ table' = table /\ nextId' = nextId
  ]_vars

C2_Witness ==
  \E r \in AddIds :
    /\ adds[r].pc = "done" /\ adds[r].status = 400 /\ adds[r].resp.code = -2
    /\ PhoneInTable(table, adds[r].body)
    /\ ~adds[r].inserted

\* C3: a submission that breaks at least one rule is answered, in the handler's
\* first step, with 400, code -5, "Validation error" and an info array holding
\* an entry for every broken field; nothing is queued on the connection.
C3_ValidationError ==
  [][\A r \in AddIds :
       (adds[r].pc = "idle" /\ adds'[r].pc # "idle" /\ ViolatedFields(adds'[r].body) # {})
         => /\ adds'[r].pc = "done"
            /\ adds'[r].status = 400
            /\ adds'[r].resp.code = -5
            /\ adds'[r].resp.response = "Validation error"
            /\ adds'[r].resp.info.t = "array"
            /\ { adds'[r].resp.info.items[i].path : i \in 1..Len(adds'[r].resp.info.items) }
                 = ViolatedFields(adds'[r].body)
            /\ queue' = queue /\ table' = table /\ nextId' = nextId
  ]_vars

C3_Witness ==
  \E r \in AddIds :
    /\ adds[r].pc = "done" /\ adds[r].resp.code = -5
    /\ Cardinality(ViolatedFields(adds[r].body)) >= 2
    /\ Len(adds[r].resp.info.items) = Cardinality(ViolatedFields(adds[r].body))

\* C4: no two rows of the table have the same phone number.
C4_PhoneUnique ==
  \A i \in 1..Len(table) : \A j \in 1..Len(table) :
    table[i].cols["phone_number"] = table[j].cols["phone_number"] => i = j

\* C5: every JSON response of either endpoint carries exactly the envelope
\* fields code, response, info, leadId, processTime and timestamp.
C5_Envelope ==
  /\ \A r \in AddIds : adds[r].pc = "done" => DOMAIN adds[r].resp = EnvelopeKeys
  /\ \A e \in ExportIds :
       (exports[e].pc = "done" /\ exports[e].status # 200) => DOMAIN exports[e].resp = EnvelopeKeys

\* C6: two exports that each ran alone and read the same rows return the same
\* content, the header row followed by one data row per table row.
C6_ExportIdempotent ==
  \A e1 \in ExportIds : \A e2 \in ExportIds :
    ( /\ exports[e1].pc = "done" /\ exports[e1].status = 200 /\ exports[e1].alone
      /\ exports[e2].pc = "done" /\ exports[e2].status = 200 /\ exports[e2].alone
      /\ exports[e1].rows = exports[e2].rows )
    => /\ exports[e1].body = exports[e2].body
       /\ ParseCsv(exports[e1].body) =
            << HeaderTitles >> \o [ i \in 1..Len(exports[e1].rows) |-> RowText(exports[e1].rows[i]) ]

\* C7: an export that runs alone, after an add with every optional field
\* populated has answered 201, returns a CSV with a record whose ten fields
\* are the submitted values.
C7_RoundTrip ==
  \A e \in ExportIds : \A r \in AddIds :
    ( /\ exports[e].pc = "done" /\ exports[e].status = 200 /\ exports[e].alone
      /\ r \in exports[e].after
      /\ \A f \in OptionalColumns : adds[r].body[f].t = "string" )
    => \E i \in 1..Len(ParseCsv(exports[e].body)) :
         ParseCsv(exports[e].body)[i] = Submitted(adds[r].body)

C7_Witness ==
  \E e \in ExportIds : \E r \in AddIds :
    /\ exports[e].pc = "done" /\ exports[e].status = 200 /\ exports[e].alone
    /\ r \in exports[e].after
    /\ adds[r].body = FullBody
    /\ \E i \in 2..Len(ParseCsv(exports[e].body)) :
         ParseCsv(exports[e].body)[i] = Submitted(FullBody)

C9_CheckThenInsertRace ==
  [][\A r \in AddIds :
       (InsertCallback(r) /\ adds'[r].dbError = "none" /\ PhoneInTable(table, adds[r].body))
         => /\ adds'[r].status = 201 /\ adds'[r].resp.code = 1
            /\ Cardinality(RowsWithPhone(table', adds[r].body))
                 = Cardinality(RowsWithPhone(table, adds[r].body)) + 1
  ]_vars

C9_Witness ==
  \E a \in AddIds : \E b \in AddIds :
    /\ a # b
    /\ adds[a].body["phone_number"] = adds[b].body["phone_number"]
    /\ adds[a].pc = "done" /\ adds[a].status = 201 /\ adds[a].resp.code = 1
    /\ adds[b].pc = "done" /\ adds[b].status = 201 /\ adds[b].resp.code = 1
    /\ Cardinality(RowsWithPhone(table, adds[a].body)) = 2

\* C10: an export whose write replaced the file and which no other write
\* overtook before its download receives the header and the rows it read; the
\* body it sends is the file's content at the download, so a write of another
\* export landing in between changes what the caller receives.
C10_ExportInterference ==
  /\ \A e \in ExportIds :
       ( /\ exports[e].pc = "done" /\ exports[e].status = 200
         /\ exports[e].flag = "w" /\ ~exports[e].clobbered )
       => ParseCsv(exports[e].body) =
            << HeaderTitles >> \o [ i \in 1..Len(exports[e].rows) |-> RowText(exports[e].rows[i]) ]
  /\ \A e \in ExportIds :
       (exports[e].pc = "done" /\ exports[e].status = 200 /\ ~exports[e].clobbered)
       => \A i \in 1..Len(exports[e].rows) : \E k \in 1..Len(ParseCsv(exports[e].body)) :
            ParseCsv(exports[e].body)[k] = RowText(exports[e].rows[i])

C10_Witness ==
  \E e \in ExportIds : \E o \in ExportIds :
    /\ e # o
    /\ exports[e].pc = "done" /\ exports[e].status = 200 /\ exports[e].clobbered
    /\ exports[e].flag = "w" /\ exports[o].flag = "w"
    /\ exports[o].rows # exports[e].rows
    /\ ParseCsv(exports[e].body) #
         << HeaderTitles >> \o [ i \in 1..Len(exports[e].rows) |-> RowText(exports[e].rows[i]) ]
    /\ ParseCsv(exports[e].body) =
         << HeaderTitles >> \o [ i \in 1..Len(exports[o].rows) |-> RowText(exports[o].rows[i]) ]

====
